---- MODULE Spec2Model ----
(***************************************************************************)
(* Model of the pull-request summarisation pipeline of git-summarizer:     *)
(* the AIService (backend/src/services/ai.ts, kept as src/unnamed/part_001)*)
(* and the summaries router with its in-memory summariesStore              *)
(* (backend/src/routes/repositories.ts, second module of the file).        *)
(*                                                                         *)
(* Three specifications share the variables:                               *)
(*   BatchSpec  one AIService.generateBatchSummaries call, step by step    *)
(*   StoreSpec  the summaries router: concurrent HTTP handlers on the      *)
(*              shared summariesStore                                      *)
(*   PageSpec   the pagination arithmetic of GET /api/summaries on lists   *)
(*              of any length                                              *)
(***************************************************************************)
EXTENDS Integers, Sequences, FiniteSets, TLC

VARIABLES
    \* ---- AIService instance (part_001:17-19)
    llmPrimary,       \* config.llm.primary: [provider, apiKey]
    openai,           \* this.openai is set
    claude,           \* this.claude is set
    defaultConfig,    \* this.defaultConfig: [provider, model]
    \* ---- one generateBatchSummaries activation (part_001:86-112)
    pullRequests,     \* the argument: a sequence of PullRequest records
    options,          \* the argument: "none" or a provider override
    summaries,        \* local: the summaries collected so far
    i,                \* local: the loop index (0-based, as in the code)
    batchPromises,    \* local: the promises of the current group
    bpc,              \* position: "loop" | "awaitAll" | "delay" | "done" | "rejected"
    started,          \* history: input positions whose generation has started
    completed,        \* history: input positions whose generation has settled
    delays,           \* history: number of pacing delays begun
    \* ---- summaries router (repositories.ts:178-526)
    summariesStore,   \* let summariesStore: PRSummary[]
    handlers,         \* the activation of each in-progress request handler
    lastResponse,     \* the response most recently sent: [req, op, status, ...]
    \* ---- pagination inputs (repositories.ts:243-257)
    qList, qPage, qLimit, qResult,
    \* ---- one generatePRSummary call (part_001:62-81)
    pullRequest,      \* the argument
    providerOutcome,  \* what the provider endpoint answers to the call
    prSummary,        \* the PRSummary the call resolved with, once it has
    \* ---- GitHubService instance (github.ts:6-401)
    rateLimitRemaining, \* this.rateLimitRemaining
    rateLimitReset,     \* this.rateLimitReset, as a time of the clock
    ghCalls,            \* the activation of each in-progress service method
    apiCalls,           \* history: repository and pull-request API calls issued
    \* ---- Express dispatch within a router (repositories.ts:8-169, 178-526)
    request,          \* the request: [router, method, path]
    dispatched,       \* the handler that answered it, once it has
    \* ---- sync router (sync.ts:9-336)
    currentSyncStatus, \* let currentSyncStatus: [isRunning, startedAt, progress]
    syncHistory,       \* const syncHistory: SyncResult[]
    syncPosts,         \* the position of each POST / handler
    syncRuns,          \* the performRealSync activations, in their order of start
    syncResponse,      \* the response most recently sent: [op, status]
    \* ---- wall clock read by new Date() and Date.now()
    now

aiVars    == <<llmPrimary, openai, claude, defaultConfig>>
batchVars == <<pullRequests, options, summaries, i, batchPromises, bpc, started, completed, delays>>
storeVars == <<summariesStore, handlers, lastResponse>>
pageVars  == <<qList, qPage, qLimit, qResult>>
parseVars == <<pullRequest, providerOutcome, prSummary>>
ghVars    == <<rateLimitRemaining, rateLimitReset, ghCalls, apiCalls>>
routeVars == <<request, dispatched>>
syncVars  == <<currentSyncStatus, syncHistory, syncPosts, syncRuns, syncResponse>>
vars      == <<aiVars, batchVars, storeVars, pageVars, parseVars, ghVars, routeVars, syncVars, now>>

(***************************************************************************)
(* Bounds of the model.                                                    *)
(***************************************************************************)
MaxBatchPRs == 7
MaxClock == 2
MaxTotal == 23
MaxPage == 3
MaxLimit == 10
MaxBullets == 7
MaxApiCalls == 3
MaxRuns == 2
MaxRepos == 2

(***************************************************************************)
(* Helpers on sequences.                                                   *)
(***************************************************************************)
Min(a, b) == IF a < b THEN a ELSE b

\* Array.prototype.slice(begin, end) with 0-based, end-exclusive indices
Slice(s, begin, end) == SubSeq(s, Min(begin, Len(s)) + 1, Min(end, Len(s)))

(***************************************************************************)
(* Pull requests as GitHubService.mapPullRequest produces them.  Only the  *)
(* fields the pipeline reads are kept.  The catalogue gives each id fixed  *)
(* metadata: small, medium-sized and large pull requests alternate.        *)
(***************************************************************************)
PullRequest(n) ==
    [id           |-> n,
     changedFiles |-> CASE n % 3 = 1 -> 2  [] n % 3 = 2 -> 25 [] OTHER -> 8,
     additions    |-> CASE n % 3 = 1 -> 10 [] n % 3 = 2 -> 900 [] OTHER -> 200,
     deletions    |-> CASE n % 3 = 1 -> 5  [] n % 3 = 2 -> 300 [] OTHER -> 100,
     repository   |-> IF n % 2 = 1 THEN "octo/one" ELSE "octo/two",
     author       |-> IF n % 3 = 1 THEN "alice" ELSE "bob",
     bodyLength   |-> IF n % 2 = 1 THEN 0 ELSE 240,
     labels       |-> n % 3]

(***************************************************************************)
(* Response texts, by the features the parser looks at.                    *)
(*   empty  the empty string                                               *)
(*   blank  not empty, white space only                                    *)
(*   hiKw   contains 'breaking change', 'high impact' or 'critical'        *)
(*   loKw   contains 'low impact', 'minor' or 'documentation'              *)
(*   long   more than 500 characters                                       *)
(*   lines  the lines of the text, each by its kind:                       *)
(*            "KC" the heading '## Key Changes'    "H" another '##' heading*)
(*            "B"  a bullet ('-' or '*') with text "E" a bullet mark alone *)
(*            "T"  any other line                                          *)
(***************************************************************************)
Text(hi, lo, long, lines) == [empty |-> FALSE, blank |-> FALSE, hiKw |-> hi, loKw |-> lo, long |-> long, lines |-> lines]

PlainText == Text(FALSE, FALSE, FALSE, <<>>)

EmptyText == [empty |-> TRUE, blank |-> FALSE, hiKw |-> FALSE, loKw |-> FALSE, long |-> FALSE, lines |-> <<>>]

BlankText == [empty |-> FALSE, blank |-> TRUE, hiKw |-> FALSE, loKw |-> FALSE, long |-> FALSE, lines |-> <<>>]

Contents == {PlainText, EmptyText}

(***************************************************************************)
(* AIService construction.                                                 *)
(***************************************************************************)
ConfigProviders == {"openai", "anthropic", "ollama", "custom"}

DefaultConfigOf(primary) ==
    [provider |-> IF primary.provider = "anthropic" THEN "claude" ELSE primary.provider,
     model    |-> "primary-model"]

OpenAIInitialized(primary) == primary.provider = "openai" /\ primary.apiKey

ClaudeInitialized(primary) == primary.provider = "anthropic" /\ primary.apiKey

isAvailable == openai \/ claude

AIInit ==
    /\ llmPrimary \in [provider : ConfigProviders, apiKey : BOOLEAN]
    /\ openai = OpenAIInitialized(llmPrimary)
    /\ claude = ClaudeInitialized(llmPrimary)
    /\ defaultConfig = DefaultConfigOf(llmPrimary)

(***************************************************************************)
(* What a provider endpoint may answer to one request.                     *)
(*   text     a response carrying a text (possibly the empty string)      *)
(*   nontext  a response whose first content block is not text, or absent *)
(*            (drawn by ParseSpec only)                                    *)
(*   error    the SDK call or fetch rejects, or the HTTP status is not ok  *)
(***************************************************************************)
Outcomes == [kind : {"text"}, content : Contents] \cup [kind : {"error"}, content : {EmptyText}]

Thrown(msg) == [ok |-> FALSE, message |-> msg, content |-> EmptyText]

Returned(content) == [ok |-> TRUE, message |-> "", content |-> content]

\* `config = { ...this.defaultConfig, ...options }`
MergedConfig(dc, opts) == IF opts = "none" THEN dc ELSE [dc EXCEPT !.provider = opts]

callOpenAI(hasClient, outcome) ==
    IF ~hasClient THEN Thrown("OpenAI client not initialized")
    ELSE IF outcome.kind = "error" THEN Thrown("provider error")
    ELSE IF outcome.kind = "nontext" \/ outcome.content.empty THEN Thrown("OpenAI returned empty response")
    ELSE Returned(outcome.content)

callClaude(hasClient, outcome) ==
    IF ~hasClient THEN Thrown("Claude client not initialized")
    ELSE IF outcome.kind = "error" THEN Thrown("provider error")
    ELSE IF outcome.kind = "nontext" THEN Thrown("Claude returned non-text response")
    ELSE Returned(outcome.content)

callOllama(outcome) ==
    IF outcome.kind = "error" THEN Thrown("Ollama API error")
    ELSE IF outcome.kind = "nontext" THEN Returned(EmptyText)
    ELSE Returned(outcome.content)

\* Whether callLLM reaches a provider endpoint (an await on the network).
IssuesRequest(config, hasOpenAI, hasClaude) ==
    \/ config.provider = "openai" /\ hasOpenAI
    \/ config.provider = "claude" /\ hasClaude
    \/ config.provider = "ollama"

callLLM(config, hasOpenAI, hasClaude, outcome) ==
    CASE config.provider = "openai" -> callOpenAI(hasOpenAI, outcome)
      [] config.provider = "claude" -> callClaude(hasClaude, outcome)
      [] config.provider = "ollama" -> callOllama(outcome)
      [] OTHER -> Thrown("Unsupported LLM provider")

\* `content.match(/## Key Changes\s*([\s\S]*?)(?=##|$)/)`: the positions of the
\* lines after the first Key Changes heading, up to the next '##' or the end.
KeyChangesSection(lines) ==
    IF \A k \in 1..Len(lines) : lines[k] # "KC" THEN <<>>
    ELSE LET first == CHOOSE k \in 1..Len(lines) : lines[k] = "KC" /\ \A j \in 1..(k - 1) : lines[j] # "KC"
             stops == {k \in (first + 1)..Len(lines) : lines[k] \in {"KC", "H"}}
             stop  == IF stops = {} THEN Len(lines) + 1 ELSE CHOOSE k \in stops : \A j \in stops : k <= j
         IN  [k \in 1..(stop - first - 1) |-> first + k]

\* `line.replace(/^[-*]\s*/, '').trim()` on a bullet line
StripBullet(kind) == IF kind = "B" THEN "text" ELSE ""

\* extractKeyChanges without its final slice.
extractKeyChangesAll(content) ==
    LET bullets == SelectSeq(KeyChangesSection(content.lines), LAMBDA k : content.lines[k] \in {"B", "E"})
        kept    == SelectSeq(bullets, LAMBDA k : StripBullet(content.lines[k]) # "")
    IN  [k \in 1..Len(kept) |-> <<"line", kept[k]>>]

\* split, filter the bullet lines, strip them, drop the empty ones, slice(0, 5);
\* a key change is kept as the position of its line.
extractKeyChanges(content) ==
    LET bullets == SelectSeq(KeyChangesSection(content.lines), LAMBDA k : content.lines[k] \in {"B", "E"})
        kept    == SelectSeq(bullets, LAMBDA k : StripBullet(content.lines[k]) # "")
    IN  Slice([k \in 1..Len(kept) |-> <<"line", kept[k]>>], 0, 5)

\* `content.length > 500 && content.includes('##')`
WellStructured(content) == content.long /\ \E k \in 1..Len(content.lines) : content.lines[k] \in {"KC", "H"}

\* The doubles the confidence arithmetic visits: Double(t, u) is the double u
\* units in the last place below the double nearest to t/10 (Double(7, 0) is
\* the literal 0.7, Double(8, 1) is 0.7999999999999999).
Double(t, u) == [tenths |-> t, ulpsBelow |-> u]

\* `d + 0.1` in IEEE-754 double arithmetic (round to nearest, ties to even),
\* on the doubles reached from 0.7 and from 0.8:
\*   0.7 + 0.1 = 0.7999999999999999      0.8 + 0.1 = 0.9
\*   0.7999999999999999 + 0.1 = 0.8999999999999999      0.9 + 0.1 = 1.0
\*   0.8999999999999999 + 0.1 = 0.9999999999999999      1.0 + 0.1 = 1.1
AddTenth(d) ==
    CASE d = Double(7, 0) -> Double(8, 1)
      [] d = Double(8, 1) -> Double(9, 1)
      [] d = Double(9, 1) -> Double(10, 1)
      [] d = Double(8, 0) -> Double(9, 0)
      [] d = Double(9, 0) -> Double(10, 0)
      [] d = Double(10, 0) -> Double(11, 0)

DoubleLeq(a, b) == a.tenths < b.tenths \/ (a.tenths = b.tenths /\ a.ulpsBelow >= b.ulpsBelow)

\* Math.min on two doubles
MathMin(a, b) == IF DoubleLeq(a, b) THEN a ELSE b

\* calculateConfidence without Math.min and with a base of 0.8.
calculateConfidenceUncapped(content, pr) ==
    LET c0 == Double(8, 0)
        c1 == IF pr.bodyLength > 100 THEN AddTenth(c0) ELSE c0
        c2 == IF pr.labels > 0 THEN AddTenth(c1) ELSE c1
    IN  IF WellStructured(content) THEN AddTenth(c2) ELSE c2

\* `let confidence = 0.7`, `confidence += 0.1` for each of the three bonuses
\* in the code's order, `Math.min(confidence, 1.0)`.
calculateConfidence(content, pr) ==
    LET c0 == Double(7, 0)
        c1 == IF pr.bodyLength > 100 THEN AddTenth(c0) ELSE c0
        c2 == IF pr.labels > 0 THEN AddTenth(c1) ELSE c1
        c3 == IF WellStructured(content) THEN AddTenth(c2) ELSE c2
    IN  MathMin(c3, Double(10, 0))

determineImpact(content, pr) ==
    IF content.hiKw \/ pr.changedFiles > 20 \/ (pr.additions + pr.deletions) > 1000 THEN "high"
    ELSE IF content.loKw \/ pr.changedFiles <= 3 \/ (pr.additions + pr.deletions) <= 50 THEN "low"
    ELSE "medium"

SummaryId(prId) == <<"summary", prId>>

\* The `summary` field: the provider's text, or the fallback text, which
\* states the error message.
Narrative(isFallback, reason, text) == [fallback |-> isFallback, reason |-> reason, text |-> text]

parseSummaryResponse(content, pr, dc, t) ==
    [id          |-> SummaryId(pr.id),
     prId        |-> pr.id,
     summary     |-> Narrative(FALSE, "", content),
     keyChanges  |-> extractKeyChanges(content),
     impact      |-> determineImpact(content, pr),
     isReviewed  |-> FALSE,
     isImportant |-> determineImpact(content, pr) = "high",
     createdAt   |-> t,
     aiProvider  |-> dc.provider,
     model       |-> dc.model,
     confidence  |-> calculateConfidence(content, pr)]

\* A fallback summary without the failure reason and the size facts.
createFallbackSummaryBare(pr, error, t) ==
    [id          |-> SummaryId(pr.id),
     prId        |-> pr.id,
     summary     |-> Narrative(TRUE, "", EmptyText),
     keyChanges  |-> <<>>,
     impact      |-> IF pr.changedFiles > 10 THEN "high" ELSE IF pr.changedFiles > 3 THEN "medium" ELSE "low",
     isReviewed  |-> FALSE,
     isImportant |-> FALSE,
     createdAt   |-> t,
     aiProvider  |-> "fallback",
     model       |-> "none",
     confidence  |-> Double(3, 0)]

\* keyChanges: `${changedFiles} files changed` and `+${additions}/-${deletions} lines`
createFallbackSummary(pr, error, t) ==
    [id          |-> SummaryId(pr.id),
     prId        |-> pr.id,
     summary     |-> Narrative(TRUE, error, EmptyText),
     keyChanges  |-> <<<<"files", pr.changedFiles>>, <<"lines", pr.additions, pr.deletions>>>>,
     impact      |-> IF pr.changedFiles > 10 THEN "high" ELSE IF pr.changedFiles > 3 THEN "medium" ELSE "low",
     isReviewed  |-> FALSE,
     isImportant |-> FALSE,
     createdAt   |-> t,
     aiProvider  |-> "fallback",
     model       |-> "none",
     confidence  |-> Double(3, 0)]

Resolved(v) == [state |-> "resolved", value |-> <<v>>]

Rejected == [state |-> "rejected", value |-> <<>>]

Calling == [state |-> "calling", value |-> <<>>]

\* generatePRSummary without its catch block: the provider error propagates.
generatePRSummaryNoCatch(pr, opts, dc, hasOpenAI, hasClaude, outcome, t) ==
    LET r == callLLM(MergedConfig(dc, opts), hasOpenAI, hasClaude, outcome)
    IN  IF r.ok THEN Resolved(parseSummaryResponse(r.content, pr, dc, t)) ELSE Rejected

\* The settled promise of generatePRSummary, given the provider's answer.
generatePRSummary(pr, opts, dc, hasOpenAI, hasClaude, outcome, t) ==
    LET r == callLLM(MergedConfig(dc, opts), hasOpenAI, hasClaude, outcome)
    IN  IF r.ok THEN Resolved(parseSummaryResponse(r.content, pr, dc, t))
        ELSE Resolved(createFallbackSummary(pr, r.message, t))

(***************************************************************************)
(* BatchSpec: one call of AIService.generateBatchSummaries(pullRequests,   *)
(* options), from entry to return.                                         *)
(***************************************************************************)
\* A group size one larger than the code's.
batchSizeSix == 5 + 1

batchSize == 5

OptionSet == {"none", "openai", "claude", "ollama"}

\* Input lists: the catalogue's first n pull requests, in either order.
InputLists == {[k \in 1..n |-> PullRequest(k)] : n \in 0..MaxBatchPRs} \cup {[k \in 1..n |-> PullRequest(n + 1 - k)] : n \in 0..MaxBatchPRs}

StoreIdle ==
    /\ summariesStore = <<>>
    /\ handlers = <<>>
    /\ lastResponse = <<>>

PageIdle ==
    /\ qList = <<>>
    /\ qPage = 1
    /\ qLimit = 1
    /\ qResult = <<>>

GhCallers == {"a", "b"}

GhIdle == [pc |-> "idle"]

\* `rateLimitRemaining: number = 5000`, `rateLimitReset: Date = new Date()`
GitHubIdle ==
    /\ rateLimitRemaining = 5000
    /\ rateLimitReset = 0
    /\ ghCalls = [c \in GhCallers |-> GhIdle]
    /\ apiCalls = 0

SyncReqs == {"p1", "p2"}

\* `undefined`, for the optional fields of the progress object
Undefined == -1

\* `{ repositoriesChecked: 0, pullRequestsFound: 0, summariesGenerated: 0 }`
NoProgress == [repositoriesChecked |-> 0, pullRequestsFound |-> 0, summariesGenerated |-> 0, currentRepository |-> Undefined, totalRepositories |-> Undefined]

\* `startedAt: null`; the Date of a run is its ordinal
Null == 0

\* The module's initial state: not running, no history, no handler.
SyncIdle ==
    /\ currentSyncStatus = [isRunning |-> FALSE, startedAt |-> Null, progress |-> NoProgress]
    /\ syncHistory = <<>>
    /\ syncPosts = [r \in SyncReqs |-> "idle"]
    /\ syncRuns = <<>>
    /\ syncResponse = <<>>

RouteIdle ==
    /\ request = [router |-> "summaries", method |-> "GET", path |-> <<>>]
    /\ dispatched = <<>>

ParseIdle ==
    /\ pullRequest = PullRequest(1)
    /\ providerOutcome = [kind |-> "error", content |-> EmptyText]
    /\ prSummary = <<>>

BatchIdle ==
    /\ pullRequests = <<>>
    /\ options = "none"
    /\ summaries = <<>>
    /\ i = 0
    /\ batchPromises = <<>>
    /\ bpc = "done"
    /\ started = {}
    /\ completed = {}
    /\ delays = 0

BatchInit ==
    /\ AIInit
    /\ pullRequests \in InputLists
    /\ options \in OptionSet
    /\ summaries = <<>>
    /\ i = 0
    /\ batchPromises = <<>>
    /\ bpc = "loop"
    /\ started = {}
    /\ completed = {}
    /\ delays = 0
    /\ now = 0
    /\ SyncIdle
    /\ GitHubIdle
    /\ RouteIdle
    /\ StoreIdle
    /\ PageIdle
    /\ ParseIdle

\* A group that leaves out its last pull request.
BatchOfShort(prs, idx) == Slice(prs, idx, idx + batchSize - 1)

\* `const batch = pullRequests.slice(i, i + batchSize)`
BatchOf(prs, idx) == Slice(prs, idx, idx + batchSize)

\* The group's summaries in reverse order.
BatchSummariesReversed(promises) == [k \in 1..Len(promises) |-> promises[Len(promises) + 1 - k].value[1]]

\* `const batchSummaries = await Promise.all(batchPromises)`: input order
BatchSummaries(promises) == [k \in 1..Len(promises) |-> promises[k].value[1]]

\* The promise of generatePRSummary(pr, options) right after the call is made:
\* pending on the provider when a request goes out, settled otherwise.
StartGeneration(pr) ==
    IF IssuesRequest(MergedConfig(defaultConfig, options), openai, claude) THEN Calling
    ELSE generatePRSummary(pr, options, defaultConfig, openai, claude, [kind |-> "error", content |-> EmptyText], now)

\* for-loop test, then `batch = slice(i, i + batchSize)` and
\* `batchPromises = batch.map(pr => this.generatePRSummary(pr, options))`
BatchLoop ==
    /\ bpc = "loop"
    /\ IF i < Len(pullRequests)
       THEN LET batch == BatchOf(pullRequests, i)
            IN  /\ batchPromises' = [k \in 1..Len(batch) |-> StartGeneration(batch[k])]
                /\ started' = started \cup {i + k : k \in 1..Len(batch)}
                /\ completed' = completed \cup {i + k : k \in {j \in 1..Len(batch) : StartGeneration(batch[j]).state # "calling"}}
                /\ bpc' = "awaitAll"
       ELSE /\ bpc' = "done"
            /\ UNCHANGED <<batchPromises, started, completed>>
    /\ UNCHANGED <<aiVars, syncVars, ghVars, routeVars, parseVars, pullRequests, options, summaries, i, delays, storeVars, pageVars, now>>

\* A provider endpoint answers the request of the k-th generation of the group.
ProviderResponds(k, outcome) ==
    /\ bpc = "awaitAll"
    /\ k \in 1..Len(batchPromises)
    /\ batchPromises[k].state = "calling"
    /\ batchPromises' = [batchPromises EXCEPT ![k] = generatePRSummary(pullRequests[i + k], options, defaultConfig, openai, claude, outcome, now)]
    /\ completed' = completed \cup {i + k}
    /\ UNCHANGED <<aiVars, syncVars, ghVars, routeVars, parseVars, pullRequests, options, summaries, i, bpc, started, delays, storeVars, pageVars, now>>

\* A pacing test that also holds after the last full group.
MoreGroupsFollowOrLast(idx, n) == idx + batchSize <= n

\* `if (i + batchSize < pullRequests.length)`
MoreGroupsFollow(idx, n) == idx + batchSize < n

\* `await Promise.all(batchPromises)` settles; `summaries.push(...batchSummaries)`;
\* then the pacing test `i + batchSize < pullRequests.length`.
BatchJoin ==
    /\ bpc = "awaitAll"
    /\ \A k \in 1..Len(batchPromises) : batchPromises[k].state # "calling"
    /\ IF \E k \in 1..Len(batchPromises) : batchPromises[k].state = "rejected"
       THEN /\ bpc' = "rejected"
            /\ UNCHANGED <<summaries, i, delays>>
       ELSE /\ summaries' = summaries \o BatchSummaries(batchPromises)
            /\ IF MoreGroupsFollow(i, Len(pullRequests))
               THEN /\ bpc' = "delay"
                    /\ delays' = delays + 1
                    /\ i' = i
               ELSE /\ bpc' = "loop"
                    /\ i' = i + batchSize
                    /\ delays' = delays
    /\ UNCHANGED <<aiVars, syncVars, ghVars, routeVars, parseVars, pullRequests, options, batchPromises, started, completed, storeVars, pageVars, now>>

\* The one-second timer of the pacing delay fires; the loop increments i.
DelayElapsed ==
    /\ bpc = "delay"
    /\ bpc' = "loop"
    /\ i' = i + batchSize
    /\ now' = now + 1
    /\ UNCHANGED <<aiVars, syncVars, ghVars, routeVars, parseVars, pullRequests, options, summaries, batchPromises, started, completed, delays, storeVars, pageVars>>

BatchNext ==
    \/ BatchLoop
    \/ \E k \in 1..batchSize, outcome \in Outcomes : ProviderResponds(k, outcome)
    \/ BatchJoin
    \/ DelayElapsed

BatchSpec == BatchInit /\ [][BatchNext]_vars

(***************************************************************************)
(* Claims settled under BatchSpec.                                         *)
(***************************************************************************)
Settled == {k \in 1..Len(batchPromises) : batchPromises[k].state # "calling"}

InFlight == {k \in 1..Len(batchPromises) : batchPromises[k].state = "calling"}

\* C2: generatePRSummary settles by resolving with a Summary of its pull
\* request whatever the provider did, never by rejecting, and so
\* generateBatchSummaries never rejects.
C2_NeverRejects ==
    /\ bpc # "rejected"
    /\ bpc = "awaitAll" => \A k \in Settled :
          /\ batchPromises[k].state = "resolved"
          /\ Len(batchPromises[k].value) = 1
          /\ batchPromises[k].value[1].prId = pullRequests[i + k].id

\* C2 witness: the batch has returned although a client was missing, a
\* provider kind was unsupported or a provider call failed.
C2_Witness ==
    /\ bpc = "done"
    /\ Len(summaries) > 0
    /\ IssuesRequest(MergedConfig(defaultConfig, options), openai, claude)
    /\ \E k \in 1..Len(summaries) : summaries[k].aiProvider = "fallback"

\* C3: the batch returns one summary per input pull request, in input order.
C3_OnePerInputInOrder ==
    bpc = "done" =>
        /\ Len(summaries) = Len(pullRequests)
        /\ \A k \in 1..Len(pullRequests) : summaries[k].prId = pullRequests[k].id

\* C3 witness: a returned batch whose length is not a multiple of the group
\* size, with provider successes and failures mixed.
C3_Witness ==
    /\ bpc = "done"
    /\ Len(pullRequests) = MaxBatchPRs
    /\ Len(pullRequests) % 5 # 0
    /\ \E k \in 1..Len(summaries) : summaries[k].aiProvider = "fallback"
    /\ \E k \in 1..Len(summaries) : summaries[k].aiProvider # "fallback"

\* C4 (as claimed): with no API key configured, whatever the primary provider
\* kind, every summary of the batch is a fallback summary.
C4_NoKeyAllFallback ==
    (~llmPrimary.apiKey /\ options = "none") =>
        /\ \A k \in 1..Len(summaries) : summaries[k].aiProvider = "fallback"
        /\ \A k \in Settled : batchPromises[k].state = "resolved" => batchPromises[k].value[1].aiProvider = "fallback"

GroupOf(pos) == (pos - 1) \div 5

\* C7: at most 5 provider calls are in flight, and a generation of a later
\* group has started only if every generation of the earlier groups is over.
C7_BoundedInFlight ==
    /\ Cardinality(InFlight) <= 5
    /\ \A j \in started : \A m \in 1..Len(pullRequests) : GroupOf(m) < GroupOf(j) => m \in completed

\* C7 witness: the second group is in flight.
C7_Witness ==
    /\ bpc = "awaitAll"
    /\ i = 5
    /\ InFlight # {}
    /\ 6 \in started

\* C18 (as claimed): while isAvailable() is false no provider call is in
\* flight and every summary made is a fallback summary.
C18_NoCallWhenUnavailable ==
    ~isAvailable =>
        /\ \A k \in 1..Len(batchPromises) : batchPromises[k].state # "calling"
        /\ \A k \in 1..Len(summaries) : summaries[k].aiProvider = "fallback"

\* C26 (as claimed): every summary a provider's text was parsed into records
\* the provider and the model of the merged configuration the call was made
\* with, so a batch run with a provider override is attributed to the
\* overriding provider.
C26_AttributedToCalledProvider ==
    \A k \in 1..Len(summaries) :
        summaries[k].aiProvider # "fallback" =>
            /\ summaries[k].aiProvider = MergedConfig(defaultConfig, options).provider
            /\ summaries[k].model = MergedConfig(defaultConfig, options).model

\* C23: a pacing delay follows a group only when a further group follows:
\* a batch of n pull requests has had max(0, ceil(n/5) - 1) delays when it
\* returns, none while a generation of a group is in flight, none after the
\* last group and none for n <= 5.
C23_DelaysBetweenGroups ==
    /\ bpc = "done" => delays = (IF Len(pullRequests) = 0 THEN 0 ELSE (Len(pullRequests) + 4) \div 5 - 1)
    /\ bpc = "delay" => (InFlight = {} /\ i + 5 < Len(pullRequests))
    /\ Len(pullRequests) <= 5 => delays = 0

\* C23 witness: a batch of more than 5 pull requests has returned after one
\* pacing delay.
C23_Witness ==
    /\ bpc = "done"
    /\ Len(pullRequests) > 5
    /\ Len(summaries) = Len(pullRequests)
    /\ delays = 1

(***************************************************************************)
(* BatchLiveSpec: BatchSpec with the fairness the event loop gives the     *)
(* code's own steps: a runnable continuation runs and the pacing timer     *)
(* fires.  A provider endpoint is under no obligation to answer, and the   *)
(* code arms no timer for a provider call: AIProviderConfig has no timeout *)
(* field, and no timeout or abort signal is passed to the SDK clients or   *)
(* to fetch.                                                               *)
(***************************************************************************)
BatchLiveSpec == BatchInit /\ [][BatchNext]_vars /\ WF_vars(BatchLoop) /\ WF_vars(BatchJoin) /\ WF_vars(DelayElapsed)

\* C16 (as claimed): every generateBatchSummaries call eventually returns,
\* even if a provider endpoint never responds.
C16_EventuallyReturns == <>(bpc = "done")

(***************************************************************************)
(* StoreSpec: the summaries router.  Express runs each handler on the one  *)
(* event loop: a handler runs without interruption from one await to the   *)
(* next, and handlers of different requests interleave at their awaits.    *)
(* Two request slots carry the handlers that await (GET / and POST         *)
(* /generate); the handlers without an await run in one step.              *)
(***************************************************************************)
Reqs == {"r1", "r2"}

Idle == [pc |-> "idle"]

\* What githubService.getAllPullRequestsFromStarredRepos may resolve with.
FetchResults == {<<>>, <<PullRequest(1)>>, <<PullRequest(1), PullRequest(2)>>}

\* Provider answers considered for the router's generations: the provider
\* answers with a text (BatchSpec covers the failures).
StoreOutcomes == {[kind |-> "text", content |-> PlainText]}

\* Values of `maxPRs` in the body of POST /generate (10 is the default).
MaxPRsValues == {1, 10}

\* Identifiers used in GET /:id requests: of the catalogue's summaries, and unknown.
RequestIds == {SummaryId(1), SummaryId(2), SummaryId(0)}

\* Identifiers used in PATCH /:id/... requests: of a summary, and unknown.
ToggleIds == {SummaryId(1), SummaryId(0)}

Absent == "absent"

\* req.query of GET /: absent parameters take the handler's defaults.  The
\* requests considered carry no repository and no author parameter.
Queries == {[impact |-> Absent, reviewed |-> Absent, important |-> Absent, page |-> Absent, limit |-> Absent], [impact |-> "high", reviewed |-> "true", important |-> "false", page |-> "2", limit |-> "1"]}

PrIdsOf(store) == {store[k].prId : k \in 1..Len(store)}

CountFor(store, prId) == Cardinality({k \in 1..Len(store) : store[k].prId = prId})

HasId(store, id) == \E k \in 1..Len(store) : store[k].id = id

\* Array.prototype.findIndex that answers the first index when nothing matches.
FindIndexOrFirst(store, id) == IF HasId(store, id) THEN CHOOSE k \in 1..Len(store) : store[k].id = id /\ \A j \in 1..(k - 1) : store[j].id # id ELSE Min(1, Len(store))

\* `summariesStore.findIndex(s => s.id === id)`, 1-based; 0 stands for -1
FindIndex(store, id) == IF HasId(store, id) THEN CHOOSE k \in 1..Len(store) : store[k].id = id /\ \A j \in 1..(k - 1) : store[j].id # id ELSE 0

\* Array.prototype.sort with the comparator b.createdAt - a.createdAt (stable)
RECURSIVE InsertByCreatedAtDesc(_, _)
InsertByCreatedAtDesc(sorted, x) ==
    IF sorted = <<>> THEN <<x>>
    ELSE IF Head(sorted).createdAt >= x.createdAt THEN <<Head(sorted)>> \o InsertByCreatedAtDesc(Tail(sorted), x)
    ELSE <<x>> \o sorted

RECURSIVE SortByCreatedAtDesc(_)
SortByCreatedAtDesc(s) == IF s = <<>> THEN <<>> ELSE InsertByCreatedAtDesc(SortByCreatedAtDesc(SubSeq(s, 1, Len(s) - 1)), s[Len(s)])

\* A toggle that sets the flag instead of flipping it.
toggleReviewedSets(store, id) == [store EXCEPT ![FindIndex(store, id)].isReviewed = TRUE]

\* `summariesStore[summaryIndex].isReviewed = !summariesStore[summaryIndex].isReviewed`
toggleReviewed(store, id) == [store EXCEPT ![FindIndex(store, id)].isReviewed = ~store[FindIndex(store, id)].isReviewed]

\* `summariesStore[summaryIndex].isImportant = !summariesStore[summaryIndex].isImportant`
toggleImportant(store, id) == [store EXCEPT ![FindIndex(store, id)].isImportant = ~store[FindIndex(store, id)].isImportant]

\* Candidate selection that does not exclude the summarised pull requests.
prsToSummarizeAll(prs, store, force, maxPRs) == Slice(prs, 0, maxPRs)

\* Candidate selection that truncates before it excludes.
prsToSummarizeSliceFirst(prs, store, force, maxPRs) ==
    IF force THEN Slice(prs, 0, maxPRs)
    ELSE SelectSeq(Slice(prs, 0, maxPRs), LAMBDA pr : pr.id \notin PrIdsOf(store))

\* `force ? pullRequests.slice(0, maxPRs) : pullRequests.filter(pr => !existingSummaryPRIds.has(pr.id)).slice(0, maxPRs)`
prsToSummarize(prs, store, force, maxPRs) ==
    IF force THEN Slice(prs, 0, maxPRs)
    ELSE Slice(SelectSeq(prs, LAMBDA pr : pr.id \notin PrIdsOf(store)), 0, maxPRs)

\* An eviction that empties the store when force is set.
EvictedAll(store, prs, force) == IF force THEN <<>> ELSE store

\* `summariesStore.filter(s => !prIdsToReplace.has(s.prId))` when force is set
Evicted(store, prs, force) ==
    IF force THEN SelectSeq(store, LAMBDA s : s.prId \notin {prs[k].id : k \in 1..Len(prs)}) ELSE store

\* The first promise of each generation of a group (at most batchSize pull requests).
StartGenerations(prs) == [k \in 1..Len(prs) |-> StartGeneration(prs[k])]

AllSettled(promises) == \A k \in 1..Len(promises) : promises[k].state = "resolved"

(***************************************************************************)
(* GET /api/summaries: filtering, sorting and pagination.                  *)
(***************************************************************************)
\* parseInt(text, 10) on the decimal numerals the requests considered carry
ParseInt(text) == CASE text = "1" -> 1 [] text = "2" -> 2 [] text = "3" -> 3 [] text = "10" -> 10 [] text = "20" -> 20

\* `page = '1'` by default, then `parseInt(page, 10)`
PageNum(q) == ParseInt(IF q.page = Absent THEN "1" ELSE q.page)

\* `limit = '20'` by default, then `parseInt(limit, 10)`
LimitNum(q) == ParseInt(IF q.limit = Absent THEN "20" ELSE q.limit)

\* hasNext that also counts the last item of the page as a next item.
hasNextInclusive(total, pageNum, limitNum) == (pageNum - 1) * limitNum + limitNum <= total

\* `hasNext: endIndex < filteredSummaries.length`
hasNext(total, pageNum, limitNum) == (pageNum - 1) * limitNum + limitNum < total

\* startIndex, endIndex, slice and the meta block of the response
Paginate(filtered, pageNum, limitNum) ==
    LET startIndex == (pageNum - 1) * limitNum
        endIndex   == startIndex + limitNum
    IN  [items   |-> Slice(filtered, startIndex, endIndex),
         total   |-> Len(filtered),
         page    |-> pageNum,
         limit   |-> limitNum,
         hasNext |-> hasNext(Len(filtered), pageNum, limitNum)]

\* The impact, reviewed and important filters, then the sort.
FilterLocalAndSort(list, q) ==
    LET f1 == IF q.impact # Absent THEN SelectSeq(list, LAMBDA s : s.impact = q.impact) ELSE list
        f2 == IF q.reviewed # Absent THEN SelectSeq(f1, LAMBDA s : s.isReviewed = (q.reviewed = "true")) ELSE f1
        f3 == IF q.important # Absent THEN SelectSeq(f2, LAMBDA s : s.isImportant = (q.important = "true")) ELSE f2
    IN  SortByCreatedAtDesc(f3)

QueryResponse(r, filtered, q) ==
    [op |-> "query", status |-> 200, data |-> Paginate(FilterLocalAndSort(filtered, q), PageNum(q), LimitNum(q))]

ErrorResponse(r, op) == [op |-> op, status |-> 500, data |-> <<>>]

\* From `let filteredSummaries = [...summariesStore]` to the response.
QueryFilter(r, q, store) ==
    /\ handlers' = [handlers EXCEPT ![r] = Idle]
    /\ lastResponse' = QueryResponse(r, store, q)

\* Handlers whose GitHub fetch is outstanding.
PendingFetches == Cardinality({r \in Reqs : handlers[r].pc \in {"initFetch", "genFetch"}})

StoreInit ==
    /\ llmPrimary = [provider |-> "openai", apiKey |-> TRUE]
    /\ openai = OpenAIInitialized(llmPrimary)
    /\ claude = ClaudeInitialized(llmPrimary)
    /\ defaultConfig = DefaultConfigOf(llmPrimary)
    /\ summariesStore = <<>>
    /\ handlers = [r \in Reqs |-> Idle]
    /\ lastResponse = <<>>
    /\ now = 0
    /\ SyncIdle
    /\ GitHubIdle
    /\ RouteIdle
    /\ BatchIdle
    /\ PageIdle
    /\ ParseIdle

\* ---- GET /api/summaries

\* The handler starts; on an empty store it awaits generateSummariesFromRecentPRs,
\* whose first await is the GitHub fetch.
QueryStart(r, q) ==
    /\ handlers[r].pc = "idle"
    /\ IF Len(summariesStore) = 0
       THEN /\ now + PendingFetches < MaxClock
            /\ handlers' = [handlers EXCEPT ![r] = [pc |-> "initFetch", q |-> q]]
            /\ UNCHANGED lastResponse
       ELSE QueryFilter(r, q, summariesStore)
    /\ UNCHANGED <<aiVars, syncVars, ghVars, routeVars, parseVars, batchVars, pageVars, summariesStore, now>>

\* generateSummariesFromRecentPRs: the fetch resolves.  The fetch spends at
\* least one clock unit on the network and on its 100 ms pauses.
InitFetched(r, prs) ==
    /\ handlers[r].pc = "initFetch"
    /\ now' = now + 1
    /\ IF Len(prs) = 0
       THEN QueryFilter(r, handlers[r].q, summariesStore)
       ELSE /\ handlers' = [handlers EXCEPT ![r] = [pc |-> "initBatch", q |-> handlers[r].q, prs |-> Slice(prs, 0, 5), promises |-> StartGenerations(Slice(prs, 0, 5))]]
            /\ UNCHANGED lastResponse
    /\ UNCHANGED <<aiVars, syncVars, ghVars, routeVars, parseVars, batchVars, pageVars, summariesStore>>

\* generateSummariesFromRecentPRs: the fetch rejects; the catch logs it.
InitFetchFailed(r) ==
    /\ handlers[r].pc = "initFetch"
    /\ QueryFilter(r, handlers[r].q, summariesStore)
    /\ UNCHANGED <<aiVars, syncVars, ghVars, routeVars, parseVars, batchVars, pageVars, summariesStore, now>>

\* generateSummariesFromRecentPRs: generateBatchSummaries resolves;
\* `summariesStore.push(...summaries)`; then the handler filters and responds.
InitDone(r) ==
    /\ handlers[r].pc = "initBatch"
    /\ AllSettled(handlers[r].promises)
    /\ summariesStore' = summariesStore \o BatchSummaries(handlers[r].promises)
    /\ QueryFilter(r, handlers[r].q, summariesStore')
    /\ UNCHANGED <<aiVars, syncVars, ghVars, routeVars, parseVars, batchVars, pageVars, now>>

\* ---- POST /api/summaries/generate

GenerateStart(r, force, maxPRs) ==
    /\ handlers[r].pc = "idle"
    /\ now + PendingFetches < MaxClock
    /\ handlers' = [handlers EXCEPT ![r] = [pc |-> "genFetch", force |-> force, maxPRs |-> maxPRs]]
    /\ UNCHANGED <<aiVars, syncVars, ghVars, routeVars, parseVars, batchVars, pageVars, summariesStore, lastResponse, now>>

\* The fetch resolves: candidate selection, then the early response or the
\* call of generateBatchSummaries.
GenerateFetched(r, prs) ==
    /\ handlers[r].pc = "genFetch"
    /\ now' = now + 1
    /\ LET h == handlers[r]
           chosen == prsToSummarize(prs, summariesStore, h.force, h.maxPRs)
       IN  IF Len(chosen) = 0
           THEN /\ handlers' = [handlers EXCEPT ![r] = Idle]
                /\ lastResponse' = [op |-> "generate", status |-> 200, data |-> [generated |-> 0, skipped |-> Len(prs), total |-> Len(summariesStore)]]
           ELSE /\ handlers' = [handlers EXCEPT ![r] = [pc |-> "genBatch", force |-> h.force, maxPRs |-> h.maxPRs, fetched |-> Len(prs), prs |-> chosen, promises |-> StartGenerations(chosen)]]
                /\ UNCHANGED lastResponse
    /\ UNCHANGED <<aiVars, syncVars, ghVars, routeVars, parseVars, batchVars, pageVars, summariesStore>>

\* The fetch rejects: the handler's catch answers 500.
GenerateFetchFailed(r) ==
    /\ handlers[r].pc = "genFetch"
    /\ handlers' = [handlers EXCEPT ![r] = Idle]
    /\ lastResponse' = ErrorResponse(r, "generate")
    /\ UNCHANGED <<aiVars, syncVars, ghVars, routeVars, parseVars, batchVars, pageVars, summariesStore, now>>

\* generateBatchSummaries resolves: eviction when force is set, push, sort, response.
GenerateDone(r) ==
    /\ handlers[r].pc = "genBatch"
    /\ AllSettled(handlers[r].promises)
    /\ LET h == handlers[r]
           newSummaries == BatchSummaries(h.promises)
       IN  /\ summariesStore' = SortByCreatedAtDesc(Evicted(summariesStore, h.prs, h.force) \o newSummaries)
           /\ lastResponse' = [op |-> "generate", status |-> 200, data |-> [generated |-> Len(newSummaries), skipped |-> h.fetched - Len(h.prs), total |-> Len(summariesStore')]]
    /\ handlers' = [handlers EXCEPT ![r] = Idle]
    /\ UNCHANGED <<aiVars, syncVars, ghVars, routeVars, parseVars, batchVars, pageVars, now>>

\* A provider answers the k-th generation of the batch a handler awaits.
HandlerProviderResponds(r, k, outcome) ==
    /\ handlers[r].pc \in {"initBatch", "genBatch"}
    /\ k \in 1..Len(handlers[r].promises)
    /\ handlers[r].promises[k].state = "calling"
    /\ handlers' = [handlers EXCEPT ![r].promises[k] = generatePRSummary(handlers[r].prs[k], "none", defaultConfig, openai, claude, outcome, now)]
    /\ UNCHANGED <<aiVars, syncVars, ghVars, routeVars, parseVars, batchVars, pageVars, summariesStore, lastResponse, now>>

\* ---- GET /api/summaries/:id

GetSummary(id) ==
    /\ lastResponse' = IF FindIndex(summariesStore, id) = 0
                       THEN [op |-> "get", status |-> 404, data |-> <<>>]
                       ELSE [op |-> "get", status |-> 200, data |-> summariesStore[FindIndex(summariesStore, id)]]
    /\ UNCHANGED <<aiVars, syncVars, ghVars, routeVars, parseVars, batchVars, pageVars, summariesStore, handlers, now>>

\* ---- PATCH /api/summaries/:id/reviewed

ToggleReviewed(id) ==
    /\ IF FindIndex(summariesStore, id) = 0
       THEN /\ lastResponse' = [op |-> "toggleReviewed", status |-> 404, data |-> <<>>]
            /\ UNCHANGED summariesStore
       ELSE /\ summariesStore' = toggleReviewed(summariesStore, id)
            /\ lastResponse' = [op |-> "toggleReviewed", status |-> 200, data |-> summariesStore'[FindIndex(summariesStore, id)]]
    /\ UNCHANGED <<aiVars, syncVars, ghVars, routeVars, parseVars, batchVars, pageVars, handlers, now>>

\* ---- PATCH /api/summaries/:id/important

ToggleImportant(id) ==
    /\ IF FindIndex(summariesStore, id) = 0
       THEN /\ lastResponse' = [op |-> "toggleImportant", status |-> 404, data |-> <<>>]
            /\ UNCHANGED summariesStore
       ELSE /\ summariesStore' = toggleImportant(summariesStore, id)
            /\ lastResponse' = [op |-> "toggleImportant", status |-> 200, data |-> summariesStore'[FindIndex(summariesStore, id)]]
    /\ UNCHANGED <<aiVars, syncVars, ghVars, routeVars, parseVars, batchVars, pageVars, handlers, now>>

StoreNext ==
    \/ \E r \in Reqs, q \in Queries : QueryStart(r, q)
    \/ \E r \in Reqs, prs \in FetchResults : InitFetched(r, prs)
    \/ \E r \in Reqs : InitFetchFailed(r)
    \/ \E r \in Reqs : InitDone(r)
    \/ \E r \in Reqs, force \in BOOLEAN, maxPRs \in MaxPRsValues : GenerateStart(r, force, maxPRs)
    \/ \E r \in Reqs, prs \in FetchResults : GenerateFetched(r, prs)
    \/ \E r \in Reqs : GenerateFetchFailed(r)
    \/ \E r \in Reqs : GenerateDone(r)
    \/ \E r \in Reqs, k \in 1..batchSize, outcome \in StoreOutcomes : HandlerProviderResponds(r, k, outcome)
    \/ \E id \in RequestIds : GetSummary(id)
    \/ \E id \in ToggleIds : ToggleReviewed(id)
    \/ \E id \in ToggleIds : ToggleImportant(id)

StoreSpec == StoreInit /\ [][StoreNext]_vars

(***************************************************************************)
(* PageSpec: the pagination of GET /api/summaries applied to a filtered,   *)
(* sorted list of any length up to MaxTotal (its items stand for the       *)
(* summaries), for every page and page size within the bounds.             *)
(***************************************************************************)
PageInit ==
    /\ qList \in {[k \in 1..n |-> k] : n \in 0..MaxTotal}
    /\ qPage \in 1..MaxPage
    /\ qLimit \in 1..MaxLimit
    /\ qResult = <<>>
    /\ llmPrimary = [provider |-> "openai", apiKey |-> TRUE]
    /\ openai = OpenAIInitialized(llmPrimary)
    /\ claude = ClaudeInitialized(llmPrimary)
    /\ defaultConfig = DefaultConfigOf(llmPrimary)
    /\ now = 0
    /\ SyncIdle
    /\ GitHubIdle
    /\ RouteIdle
    /\ BatchIdle
    /\ StoreIdle
    /\ ParseIdle

\* Lines 243-257 of the handler on the list qList.
RunPaginate ==
    /\ qResult = <<>>
    /\ qResult' = <<Paginate(qList, qPage, qLimit)>>
    /\ UNCHANGED <<aiVars, syncVars, ghVars, routeVars, parseVars, batchVars, storeVars, qList, qPage, qLimit, now>>

PageNext == RunPaginate

PageSpec == PageInit /\ [][PageNext]_vars

(***************************************************************************)
(* ParseSpec: one AIService.generatePRSummary call on a pull request of    *)
(* any size against a provider that answers with any text, a response      *)
(* without text, or an error.                                              *)
(***************************************************************************)
\* additions and deletions, around the thresholds 50 and 1000 of their sum
SizeCases == {<<10, 5>>, <<30, 20>>, <<30, 21>>, <<600, 400>>, <<600, 401>>}

\* Pull requests around the thresholds of determineImpact, createFallbackSummary
\* and calculateConfidence.
ParsePullRequests == {[id |-> 1, changedFiles |-> f, additions |-> sz[1], deletions |-> sz[2], repository |-> "octo/one", author |-> "alice", bodyLength |-> b, labels |-> l] : f \in {3, 4, 10, 11, 20, 21}, sz \in SizeCases, b \in {0, 100, 101}, l \in {0, 2}}

LineKinds == {"KC", "H", "B", "E", "T"}

Bullets(n) == [k \in 1..n |-> "B"]

\* The lines of the response texts: every text of up to two lines, and Key
\* Changes sections of up to MaxBullets bullets, alone or followed by another
\* section, or with bullet marks without text among them.
ParseLines == {<<>>} \cup {<<a>> : a \in LineKinds} \cup {<<a, b>> : a \in LineKinds, b \in LineKinds} \cup {<<"KC">> \o Bullets(n) \o tail : n \in 0..MaxBullets, tail \in {<<>>, <<"H", "B">>}} \cup {<<"T", "KC", "E">> \o Bullets(n) \o <<"E", "B">> : n \in 0..MaxBullets}

ParseContents == {Text(hi, lo, long, lines) : hi \in BOOLEAN, lo \in BOOLEAN, long \in BOOLEAN, lines \in ParseLines} \cup {EmptyText, BlankText}

ParseOutcomes == [kind : {"text"}, content : ParseContents] \cup [kind : {"nontext", "error"}, content : {EmptyText}]

\* The three backends, each configured as the primary provider with its key.
ParseConfigs == {[provider |-> "openai", apiKey |-> TRUE], [provider |-> "anthropic", apiKey |-> TRUE], [provider |-> "ollama", apiKey |-> TRUE]}

ParseInit ==
    /\ llmPrimary \in ParseConfigs
    /\ openai = OpenAIInitialized(llmPrimary)
    /\ claude = ClaudeInitialized(llmPrimary)
    /\ defaultConfig = DefaultConfigOf(llmPrimary)
    /\ pullRequest \in ParsePullRequests
    /\ providerOutcome \in ParseOutcomes
    /\ prSummary = <<>>
    /\ now = 0
    /\ SyncIdle
    /\ GitHubIdle
    /\ RouteIdle
    /\ BatchIdle
    /\ StoreIdle
    /\ PageIdle

\* generatePRSummary(pullRequest) from the call to the resolved PRSummary.
GenerateOne ==
    /\ prSummary = <<>>
    /\ prSummary' = generatePRSummary(pullRequest, "none", defaultConfig, openai, claude, providerOutcome, now).value
    /\ UNCHANGED <<aiVars, syncVars, ghVars, routeVars, batchVars, storeVars, pageVars, pullRequest, providerOutcome, now>>

ParseNext == GenerateOne

ParseSpec == ParseInit /\ [][ParseNext]_vars

(***************************************************************************)
(* Claims settled under ParseSpec.                                         *)
(***************************************************************************)
\* C12: every summary, parsed from a text with any number of bullet lines in
\* its Key Changes section or made by the fallback path, has at most 5
\* keyChanges.
C12_KeyChangesAtMostFive == prSummary # <<>> => Len(prSummary[1].keyChanges) <= 5

\* C12 witness: a summary parsed from a text whose Key Changes section has
\* more than 5 bullets with text; it keeps the first 5.
C12_Witness ==
    /\ prSummary # <<>>
    /\ prSummary[1].aiProvider # "fallback"
    /\ Len(extractKeyChangesAll(providerOutcome.content)) > 5
    /\ prSummary[1].keyChanges = SubSeq(extractKeyChangesAll(providerOutcome.content), 1, 5)

\* C13: every summary, parsed or fallback, has a confidence between 0 and 1.
C13_ConfidenceInUnitInterval == prSummary # <<>> => (DoubleLeq(Double(0, 0), prSummary[1].confidence) /\ DoubleLeq(prSummary[1].confidence, Double(10, 0)))

\* C13 witness: a parsed summary for which all three bonuses apply.
C13_Witness ==
    /\ prSummary # <<>>
    /\ prSummary[1].aiProvider # "fallback"
    /\ pullRequest.bodyLength > 100
    /\ pullRequest.labels > 0
    /\ WellStructured(providerOutcome.content)
    /\ prSummary[1].confidence.tenths = 10

\* Whether the summary was parsed from the provider's text.
Parsed == prSummary # <<>> /\ prSummary[1].aiProvider # "fallback"

\* The high-impact rule of the contract, on the pull request and on the
\* provider's text when the summary was parsed from it.
HighRuleFires == pullRequest.changedFiles > 20 \/ pullRequest.additions + pullRequest.deletions > 1000 \/ (Parsed /\ providerOutcome.content.hiKw)

\* C14 (as claimed): every summary, parsed or fallback, of a pull request with
\* more than 20 changed files or more than 1000 changed lines, or whose text
\* has a breaking-change indicator, has impact high.
C14_HighImpactPrecedence == (prSummary # <<>> /\ HighRuleFires) => prSummary[1].impact = "high"

\* C15 (as claimed): every summary, parsed or fallback, for which the
\* high-impact rule does not fire and whose pull request has at most 3
\* changed files or at most 50 changed lines, has impact low.
C15_LowImpactRule ==
    (prSummary # <<>> /\ ~HighRuleFires /\ (pullRequest.changedFiles <= 3 \/ pullRequest.additions + pullRequest.deletions <= 50)) => prSummary[1].impact = "low"

\* C17 (as claimed): for each backend, a response whose text is empty or
\* white space only yields a fallback summary.
C17_EmptyResponseIsFailure ==
    (prSummary # <<>> /\ providerOutcome.kind = "text" /\ (providerOutcome.content.empty \/ providerOutcome.content.blank)) => prSummary[1].aiProvider = "fallback"

\* C21 (as claimed): every newly created summary, parsed or fallback and
\* whatever its impact, has isReviewed = false and isImportant = false.
C21_NewSummaryFlagsFalse == prSummary # <<>> => (~prSummary[1].isReviewed /\ ~prSummary[1].isImportant)

\* What the provider call of the generation made: a text or a thrown error.
ProviderCall == callLLM(MergedConfig(defaultConfig, "none"), openai, claude, providerOutcome)

\* C24: when the provider call of a generation throws, the summary returned
\* has aiProvider "fallback", model "none", confidence 0.3, the changed-file
\* count and the added and deleted line counts of the pull request as its
\* key changes and a narrative stating the error message; and, creation time
\* apart, it is the summary created for that pull request and that error at
\* any other time.
C24_FallbackContent ==
    (prSummary # <<>> /\ ~ProviderCall.ok) =>
        /\ prSummary[1].aiProvider = "fallback"
        /\ prSummary[1].model = "none"
        /\ prSummary[1].confidence = Double(3, 0)
        /\ prSummary[1].keyChanges = <<<<"files", pullRequest.changedFiles>>, <<"lines", pullRequest.additions, pullRequest.deletions>>>>
        /\ prSummary[1].summary.fallback
        /\ prSummary[1].summary.reason = ProviderCall.message
        /\ ProviderCall.message # ""
        /\ \A t \in 0..MaxClock : [generatePRSummary(pullRequest, "none", defaultConfig, openai, claude, providerOutcome, t).value[1] EXCEPT !.createdAt = prSummary[1].createdAt] = prSummary[1]

\* A generation whose provider threw has returned its summary, for a pull
\* request with changed files and changed lines.
C24_Witness ==
    /\ prSummary # <<>>
    /\ providerOutcome.kind = "error"
    /\ prSummary[1].aiProvider = "fallback"
    /\ pullRequest.changedFiles > 0
    /\ pullRequest.additions > 0
    /\ pullRequest.deletions > 0

\* How many of the three bonuses apply to the generation.
BonusCount ==
    (IF pullRequest.bodyLength > 100 THEN 1 ELSE 0) + (IF pullRequest.labels > 0 THEN 1 ELSE 0) + (IF WellStructured(providerOutcome.content) THEN 1 ELSE 0)

\* The double `Math.min(1.0, 0.7 + 0.1 * k)` for k = 0..3: 0.1 * 3 is
\* 0.30000000000000004 and 0.7 + 0.1 * 3 is exactly 1.0, while 0.7 + 0.1 and
\* 0.7 + 0.1 * 2 are the doubles one unit below 0.8 and 0.9.
ClaimedConfidence(k) == IF k = 0 THEN Double(7, 0) ELSE IF k = 3 THEN Double(10, 0) ELSE Double(7 + k, 1)

\* C25 (as claimed): a parsed summary has confidence min(1.0, 0.7 + 0.1*k),
\* k being the number of bonuses that apply; 0.7 when none applies.
C25_ConfidenceFormula == Parsed => prSummary[1].confidence = ClaimedConfidence(BonusCount)

(***************************************************************************)
(* GitHubSpec: the GitHubService singleton.  Every service method first    *)
(* awaits checkRateLimit (the probe, and a pause when the probe reports    *)
(* fewer than 10 requests remaining), then issues its API calls.  Methods  *)
(* called for different HTTP requests interleave at their awaits.          *)
(***************************************************************************)
Methods == {"getStarredRepositories", "getRepositoryPullRequests", "getPullRequestDetails", "getAuthenticatedUser"}

\* The API calls a method issues after its probe: the sizes of the groups of
\* calls it awaits one after the other (repos.get then pulls.list; the four
\* calls of getPullRequestDetails go out together under Promise.all).
CallGroups(method) ==
    CASE method = "getRepositoryPullRequests" -> <<1, 1>>
      [] method = "getPullRequestDetails" -> <<4>>
      [] OTHER -> <<1>>

\* What the rate-limit endpoint may report as `data.rate.remaining`.
ProbeRemaining == {9, 10}

\* `if (this.rateLimitRemaining < 10)`
rateLimitLow == 10

\* `this.rateLimitRemaining < 10` and `waitTime > 0`
MustWait(remaining, reset, t) == remaining < rateLimitLow /\ reset - t > 0

\* The method issues its next group of API calls and awaits it.
IssueCalls(c) ==
    LET h == ghCalls[c]
    IN  /\ ghCalls' = [ghCalls EXCEPT ![c] = [pc |-> "call", method |-> h.method, step |-> h.step + 1, wakeAt |-> 0]]
        /\ apiCalls' = apiCalls + CallGroups(h.method)[h.step + 1]

GitHubInit ==
    /\ llmPrimary = [provider |-> "openai", apiKey |-> TRUE]
    /\ openai = OpenAIInitialized(llmPrimary)
    /\ claude = ClaudeInitialized(llmPrimary)
    /\ defaultConfig = DefaultConfigOf(llmPrimary)
    /\ now = 0
    /\ SyncIdle
    /\ GitHubIdle
    /\ RouteIdle
    /\ BatchIdle
    /\ StoreIdle
    /\ PageIdle
    /\ ParseIdle

\* A service method is called: `await this.checkRateLimit()` sends the probe.
MethodStart(c, method) ==
    /\ ghCalls[c].pc = "idle"
    /\ apiCalls < MaxApiCalls
    /\ ghCalls' = [ghCalls EXCEPT ![c] = [pc |-> "probe", method |-> method, step |-> 0, wakeAt |-> 0]]
    /\ UNCHANGED <<aiVars, syncVars, routeVars, batchVars, storeVars, pageVars, parseVars, rateLimitRemaining, rateLimitReset, apiCalls, now>>

\* The probe is answered: the fields are set; the method pauses until the
\* reset time or goes on to its first API calls.
ProbeAnswered(c, remaining, reset) ==
    /\ ghCalls[c].pc = "probe"
    /\ rateLimitRemaining' = remaining
    /\ rateLimitReset' = reset
    /\ IF MustWait(remaining, reset, now)
       THEN /\ ghCalls' = [ghCalls EXCEPT ![c].pc = "wait", ![c].wakeAt = reset]
            /\ UNCHANGED apiCalls
       ELSE IssueCalls(c)
    /\ UNCHANGED <<aiVars, syncVars, routeVars, batchVars, storeVars, pageVars, parseVars, now>>

\* The probe fails: checkRateLimit's catch logs it and the method goes on.
ProbeFailed(c) ==
    /\ ghCalls[c].pc = "probe"
    /\ IssueCalls(c)
    /\ UNCHANGED <<aiVars, syncVars, routeVars, batchVars, storeVars, pageVars, parseVars, rateLimitRemaining, rateLimitReset, now>>

\* The timer of the pause fires.
WaitElapsed(c) ==
    /\ ghCalls[c].pc = "wait"
    /\ now >= ghCalls[c].wakeAt
    /\ IssueCalls(c)
    /\ UNCHANGED <<aiVars, syncVars, routeVars, batchVars, storeVars, pageVars, parseVars, rateLimitRemaining, rateLimitReset, now>>

\* The API calls awaited are answered: the next group goes out, or the
\* method returns.
CallsAnswered(c) ==
    /\ ghCalls[c].pc = "call"
    /\ IF ghCalls[c].step < Len(CallGroups(ghCalls[c].method))
       THEN IssueCalls(c)
       ELSE /\ ghCalls' = [ghCalls EXCEPT ![c] = GhIdle]
            /\ UNCHANGED apiCalls
    /\ UNCHANGED <<aiVars, syncVars, routeVars, batchVars, storeVars, pageVars, parseVars, rateLimitRemaining, rateLimitReset, now>>

\* An API call fails: the method's catch rethrows.
CallFailed(c) ==
    /\ ghCalls[c].pc = "call"
    /\ ghCalls' = [ghCalls EXCEPT ![c] = GhIdle]
    /\ UNCHANGED <<aiVars, syncVars, routeVars, batchVars, storeVars, pageVars, parseVars, rateLimitRemaining, rateLimitReset, apiCalls, now>>

\* Time passes.
GhTick ==
    /\ now < MaxClock
    /\ now' = now + 1
    /\ UNCHANGED <<aiVars, syncVars, routeVars, batchVars, storeVars, pageVars, parseVars, ghVars>>

GitHubNext ==
    \/ \E c \in GhCallers, method \in Methods : MethodStart(c, method)
    \/ \E c \in GhCallers, remaining \in ProbeRemaining, reset \in now..(now + 1) : ProbeAnswered(c, remaining, reset)
    \/ \E c \in GhCallers : ProbeFailed(c)
    \/ \E c \in GhCallers : WaitElapsed(c)
    \/ \E c \in GhCallers : CallsAnswered(c)
    \/ \E c \in GhCallers : CallFailed(c)
    \/ GhTick

GitHubSpec == GitHubInit /\ [][GitHubNext]_vars

(***************************************************************************)
(* Claims settled under GitHubSpec.                                        *)
(***************************************************************************)
\* C19 (as claimed): no repository or pull-request API call is issued while
\* the latest probe has reported fewer than 10 requests remaining and its
\* reset time has not passed.
C19_PauseUntilReset ==
    [][apiCalls' > apiCalls => ~(rateLimitRemaining' < 10 /\ now' < rateLimitReset')]_vars

(***************************************************************************)
(* SyncSpec: the sync router.  POST / validates the GitHub token and then  *)
(* starts performRealSync without awaiting it; the run walks the starred   *)
(* repositories, one await per fetch and per pause; DELETE /cancel resets  *)
(* the status.  Handlers and runs interleave at their awaits.  The GET     *)
(* routes only read the status and the history.                            *)
(***************************************************************************)
\* Pull requests a repository's fetch may find.
PRCounts == {0, 1}

historyLimit == 10

\* The awaits of performRealSync at which a run can be suspended.
InProgress(run) == run.pc \in {"fetchRepos", "fetchPRs", "pause"}

RunsInProgress == {k \in 1..Len(syncRuns) : InProgress(syncRuns[k])}

SyncInit ==
    /\ llmPrimary = [provider |-> "openai", apiKey |-> TRUE]
    /\ openai = OpenAIInitialized(llmPrimary)
    /\ claude = ClaudeInitialized(llmPrimary)
    /\ defaultConfig = DefaultConfigOf(llmPrimary)
    /\ now = 0
    /\ SyncIdle
    /\ GitHubIdle
    /\ RouteIdle
    /\ BatchIdle
    /\ StoreIdle
    /\ PageIdle
    /\ ParseIdle

\* POST /: the isRunning test, then `await githubService.validateToken()`.
PostSync(r) ==
    /\ syncPosts[r] = "idle"
    /\ IF currentSyncStatus.isRunning
       THEN /\ syncResponse' = [op |-> "post", status |-> 409]
            /\ UNCHANGED syncPosts
       ELSE /\ Len(syncRuns) + Cardinality({q \in SyncReqs : syncPosts[q] = "validating"}) < MaxRuns
            /\ syncPosts' = [syncPosts EXCEPT ![r] = "validating"]
            /\ UNCHANGED syncResponse
    /\ UNCHANGED <<aiVars, ghVars, routeVars, parseVars, batchVars, storeVars, pageVars, currentSyncStatus, syncHistory, syncRuns, now>>

\* The start of performRealSync, up to its first await.
StartedRun(ordinal) == [pc |-> "fetchRepos", startedAt |-> ordinal, repositories |-> 0, index |-> 0, totalPullRequests |-> 0, errors |-> 0]

\* validateToken resolves: 401, or performRealSync() is called and 202 sent.
TokenValidated(r, isTokenValid) ==
    /\ syncPosts[r] = "validating"
    /\ syncPosts' = [syncPosts EXCEPT ![r] = "idle"]
    /\ IF ~isTokenValid
       THEN /\ syncResponse' = [op |-> "post", status |-> 401]
            /\ UNCHANGED <<currentSyncStatus, syncRuns>>
       ELSE /\ currentSyncStatus' = [isRunning |-> TRUE, startedAt |-> Len(syncRuns) + 1, progress |-> NoProgress]
            /\ syncRuns' = Append(syncRuns, StartedRun(Len(syncRuns) + 1))
            /\ syncResponse' = [op |-> "post", status |-> 202]
    /\ UNCHANGED <<aiVars, ghVars, routeVars, parseVars, batchVars, storeVars, pageVars, syncHistory, now>>

\* The SyncResult of a run that went through its repositories.
SyncResultOf(status, run) ==
    [repositoriesChecked |-> status.progress.repositoriesChecked,
     newPRsFound         |-> run.totalPullRequests,
     summariesGenerated  |-> 0,
     errors              |-> run.errors,
     startedAt           |-> run.startedAt]

\* `syncHistory.unshift(result)`, then `pop()` beyond ten results
Unshifted(history, result) == Slice(<<result>> \o history, 0, historyLimit)

\* The head of the `for` loop of run k, whose record is run and which has
\* left the status as status: the next repository, or the completion.
ContinueLoop(k, run, status) ==
    IF run.index < run.repositories
    THEN /\ currentSyncStatus' = [status EXCEPT !.progress.currentRepository = run.index + 1]
         /\ syncRuns' = [syncRuns EXCEPT ![k] = [run EXCEPT !.pc = "fetchPRs", !.index = run.index + 1]]
         /\ UNCHANGED syncHistory
    ELSE /\ currentSyncStatus' = [status EXCEPT !.isRunning = FALSE, !.startedAt = Null]
         /\ syncHistory' = Unshifted(syncHistory, SyncResultOf(status, run))
         /\ syncRuns' = [syncRuns EXCEPT ![k] = [run EXCEPT !.pc = "done"]]

\* getStarredRepositories resolves with n repositories.
ReposFetched(k, n) ==
    /\ k \in 1..Len(syncRuns)
    /\ syncRuns[k].pc = "fetchRepos"
    /\ ContinueLoop(k, [syncRuns[k] EXCEPT !.repositories = n], [currentSyncStatus EXCEPT !.progress.totalRepositories = n])
    /\ UNCHANGED <<aiVars, ghVars, routeVars, parseVars, batchVars, storeVars, pageVars, syncPosts, syncResponse, now>>

\* getStarredRepositories rejects: the catch of performRealSync, then the
\* .catch of the POST handler.
ReposFetchFailed(k) ==
    /\ k \in 1..Len(syncRuns)
    /\ syncRuns[k].pc = "fetchRepos"
    /\ currentSyncStatus' = [currentSyncStatus EXCEPT !.isRunning = FALSE, !.startedAt = Null]
    /\ syncRuns' = [syncRuns EXCEPT ![k].pc = "failed"]
    /\ UNCHANGED <<aiVars, ghVars, routeVars, parseVars, batchVars, storeVars, pageVars, syncHistory, syncPosts, syncResponse, now>>

\* getRepositoryPullRequests resolves with m pull requests; the 200 ms pause begins.
PRsFetched(k, m) ==
    /\ k \in 1..Len(syncRuns)
    /\ syncRuns[k].pc = "fetchPRs"
    /\ syncRuns' = [syncRuns EXCEPT ![k].pc = "pause", ![k].totalPullRequests = @ + m]
    /\ currentSyncStatus' = [currentSyncStatus EXCEPT !.progress.repositoriesChecked = @ + 1, !.progress.pullRequestsFound = syncRuns[k].totalPullRequests + m]
    /\ UNCHANGED <<aiVars, ghVars, routeVars, parseVars, batchVars, storeVars, pageVars, syncHistory, syncPosts, syncResponse, now>>

\* getRepositoryPullRequests rejects: the inner catch, then the next repository.
PRsFetchFailed(k) ==
    /\ k \in 1..Len(syncRuns)
    /\ syncRuns[k].pc = "fetchPRs"
    /\ ContinueLoop(k, [syncRuns[k] EXCEPT !.errors = @ + 1], [currentSyncStatus EXCEPT !.progress.repositoriesChecked = @ + 1])
    /\ UNCHANGED <<aiVars, ghVars, routeVars, parseVars, batchVars, storeVars, pageVars, syncPosts, syncResponse, now>>

\* The pause after a repository ends.
PauseElapsed(k) ==
    /\ k \in 1..Len(syncRuns)
    /\ syncRuns[k].pc = "pause"
    /\ ContinueLoop(k, syncRuns[k], currentSyncStatus)
    /\ UNCHANGED <<aiVars, ghVars, routeVars, parseVars, batchVars, storeVars, pageVars, syncPosts, syncResponse, now>>

\* DELETE /cancel
CancelSync ==
    /\ IF ~currentSyncStatus.isRunning
       THEN /\ syncResponse' = [op |-> "cancel", status |-> 400]
            /\ UNCHANGED currentSyncStatus
       ELSE /\ currentSyncStatus' = [isRunning |-> FALSE, startedAt |-> Null, progress |-> NoProgress]
            /\ syncResponse' = [op |-> "cancel", status |-> 200]
    /\ UNCHANGED <<aiVars, ghVars, routeVars, parseVars, batchVars, storeVars, pageVars, syncHistory, syncPosts, syncRuns, now>>

\* A step of run k.
RunStep(k) ==
    \/ \E n \in 0..MaxRepos : ReposFetched(k, n)
    \/ ReposFetchFailed(k)
    \/ \E m \in PRCounts : PRsFetched(k, m)
    \/ PRsFetchFailed(k)
    \/ PauseElapsed(k)

SyncNext ==
    \/ \E r \in SyncReqs : PostSync(r)
    \/ \E r \in SyncReqs, isTokenValid \in BOOLEAN : TokenValidated(r, isTokenValid)
    \/ \E k \in 1..MaxRuns : RunStep(k)
    \/ CancelSync

SyncSpec == SyncInit /\ [][SyncNext]_vars

(***************************************************************************)
(* Claims settled under SyncSpec.                                          *)
(***************************************************************************)
\* C28 (as claimed): at most one performRealSync run is in progress at any
\* time, whatever the order in which POST / requests arrive and their token
\* validations resolve.
C28_AtMostOneRun == Cardinality(RunsInProgress) <= 1

\* The run the status registers: the one whose start set the status.
Registered(k) == currentSyncStatus.isRunning /\ currentSyncStatus.startedAt = syncRuns[k].startedAt

\* C29 (as claimed): isRunning is true only while the run that set it is in
\* progress, and a step of a run that the status no longer registers (a
\* cancelled run, whether or not a later run has started) changes neither
\* the status nor the history.
C29_CancelledRunIsInert ==
    [][/\ currentSyncStatus.isRunning => \E k \in RunsInProgress : Registered(k)
       /\ \A k \in 1..Len(syncRuns) : (RunStep(k) /\ ~Registered(k)) => UNCHANGED <<currentSyncStatus, syncHistory>>
    ]_vars

(***************************************************************************)
(* RouterSpec: how Express picks the handler of a request within a router. *)
(* The routes of a router are tried in the order of their registration;    *)
(* the first whose method and path pattern match runs.  Every handler of   *)
(* the two routers ends the response and none calls next(), so no later    *)
(* route runs for the request.                                             *)
(***************************************************************************)
Route(method, pattern, handler) == [method |-> method, pattern |-> pattern, handler |-> handler]

\* router.get / router.patch / router.post calls of the repositories router, in order
repositoriesRouter == <<Route("GET", <<>>, "listRepositories"), Route("GET", <<":id">>, "getRepository"), Route("PATCH", <<":id">>, "updateRepository"), Route("POST", <<"sync">>, "syncRepositories"), Route("GET", <<"user">>, "getUser"), Route("GET", <<"rate-limit">>, "getRateLimit")>>

\* router.get / router.patch / router.post calls of the summaries router, in order
summariesRouter == <<Route("GET", <<>>, "listSummaries"), Route("GET", <<":id">>, "getSummary"), Route("PATCH", <<":id", "reviewed">>, "toggleReviewed"), Route("PATCH", <<":id", "important">>, "toggleImportant"), Route("POST", <<"generate">>, "generateSummaries"), Route("GET", <<"stats">>, "getStats")>>

RoutesOf(router) == IF router = "repositories" THEN repositoriesRouter ELSE summariesRouter

\* A path pattern matches a path of as many segments, each equal to the
\* pattern's segment unless that is a parameter.
PathMatches(pattern, path) ==
    /\ Len(pattern) = Len(path)
    /\ \A k \in 1..Len(pattern) : pattern[k] = ":id" \/ pattern[k] = path[k]

RouteMatches(route, req) == route.method = req.method /\ PathMatches(route.pattern, req.path)

\* The handler Express runs: of the first matching route; when no route of
\* the router matches, the request falls through to the application's 404.
Dispatch(routes, req) ==
    IF \E k \in 1..Len(routes) : RouteMatches(routes[k], req)
    THEN routes[CHOOSE k \in 1..Len(routes) : RouteMatches(routes[k], req) /\ \A j \in 1..(k - 1) : ~RouteMatches(routes[j], req)].handler
    ELSE "notFound"

\* Paths below the mount point of a router, by their segments.
RequestPaths == {<<>>, <<"user">>, <<"rate-limit">>, <<"stats">>, <<"sync">>, <<"generate">>, <<"summary-1">>, <<"42">>, <<"summary-1", "reviewed">>, <<"summary-1", "important">>, <<"stats", "reviewed">>}

RouterInit ==
    /\ request \in [router : {"repositories", "summaries"}, method : {"GET", "PATCH", "POST"}, path : RequestPaths]
    /\ dispatched = <<>>
    /\ llmPrimary = [provider |-> "openai", apiKey |-> TRUE]
    /\ openai = OpenAIInitialized(llmPrimary)
    /\ claude = ClaudeInitialized(llmPrimary)
    /\ defaultConfig = DefaultConfigOf(llmPrimary)
    /\ now = 0
    /\ SyncIdle
    /\ GitHubIdle
    /\ BatchIdle
    /\ StoreIdle
    /\ PageIdle
    /\ ParseIdle

\* Express dispatches the request.
DispatchRequest ==
    /\ dispatched = <<>>
    /\ dispatched' = <<Dispatch(RoutesOf(request.router), request)>>
    /\ UNCHANGED <<aiVars, syncVars, ghVars, batchVars, storeVars, pageVars, parseVars, request, now>>

RouterNext == DispatchRequest

RouterSpec == RouterInit /\ [][RouterNext]_vars

(***************************************************************************)
(* Claims settled under RouterSpec.                                        *)
(***************************************************************************)
\* The handler the documentation gives for a static GET endpoint.
DocumentedHandler(req) ==
    CASE req.router = "summaries" /\ req.path = <<"stats">> -> "getStats"
      [] req.router = "repositories" /\ req.path = <<"user">> -> "getUser"
      [] req.router = "repositories" /\ req.path = <<"rate-limit">> -> "getRateLimit"
      [] OTHER -> "none"

\* C20 (as claimed): GET /api/summaries/stats, GET /api/repositories/user and
\* GET /api/repositories/rate-limit are answered by their own handlers,
\* never by the /:id handler of their router.
C20_StaticRoutesReachTheirHandlers ==
    (dispatched # <<>> /\ request.method = "GET" /\ DocumentedHandler(request) # "none") => dispatched[1] = DocumentedHandler(request)

(***************************************************************************)
(* QuerySpec: GET /api/summaries on a store that holds summaries, with     *)
(* every filter parameter the handler reads or the contract names.  The    *)
(* handler snapshots the store (`[...summariesStore]`, a copy of the       *)
(* array whose entries are the stored objects), awaits a GitHub fetch for  *)
(* the repository filter and another for the author filter, then applies   *)
(* the remaining filters, sorts, paginates and responds.  The toggles run  *)
(* between its awaits; nothing adds to or removes from the store here, so  *)
(* the snapshot is kept as the positions of its entries in the store.      *)
(***************************************************************************)
\* A stored summary of catalogue pull request n created at time t.
StoredSummary(n, t) == parseSummaryResponse(PlainText, PullRequest(n), DefaultConfigOf([provider |-> "openai", apiKey |-> TRUE]), t)

\* Stores the router can hold: summaries of distinct pull requests.
QueryStores == {<<StoredSummary(1, t1), StoredSummary(2, t2)>> : t1 \in 1..2, t2 \in 1..2} \cup {<<StoredSummary(3, t1), StoredSummary(1, t2), StoredSummary(2, 1)>> : t1 \in 1..2, t2 \in 1..2}

\* req.query of GET /: each filter parameter absent or supplied.
QueryParams == [prId : {Absent, "1"}, repository : {Absent, "octo/one"}, author : {Absent, "alice"}, impact : {Absent, "low"}, reviewed : {Absent, "true"}, important : {Absent, "false"}, page : {Absent}, limit : {Absent}]

\* What getAllPullRequestsFromStarredRepos may resolve with while filtering:
\* the open pull requests of the starred repositories at that moment.
FilterFetchResults == {<<PullRequest(1), PullRequest(2), PullRequest(3)>>, <<PullRequest(2), PullRequest(3)>>}

\* `pullRequests.filter(pr => pr.repository.fullName === repository).map(pr => pr.id)`
repoPRIds(prs, repository) == {prs[k].id : k \in {j \in 1..Len(prs) : prs[j].repository = repository}}

\* `pullRequests.filter(pr => pr.author.login === author).map(pr => pr.id)`
authorPRIds(prs, author) == {prs[k].id : k \in {j \in 1..Len(prs) : prs[j].author = author}}

\* The entries of the snapshot, read through their references at this moment.
Deref(store, refs) == [k \in 1..Len(refs) |-> store[refs[k]]]

\* Lines 226-259 on the snapshot: the local filters, sort, pagination, response.
FilterRespond(r, q, refs) ==
    /\ handlers' = [handlers EXCEPT ![r] = Idle]
    /\ lastResponse' = QueryResponse(r, Deref(summariesStore, refs), q)

\* After the repository filter: the author filter's fetch, or the rest.
FilterAfterRepository(r, q, refs) ==
    IF q.author # Absent
    THEN /\ handlers' = [handlers EXCEPT ![r] = [pc |-> "authorFetch", q |-> q, filteredSummaries |-> refs]]
         /\ UNCHANGED lastResponse
    ELSE FilterRespond(r, q, refs)

\* The handler starts on a store that holds summaries and snapshots it.
FilterStart(r, q) ==
    /\ handlers[r].pc = "idle"
    /\ Len(summariesStore) > 0
    /\ LET refs == [k \in 1..Len(summariesStore) |-> k]
       IN  IF q.repository # Absent
           THEN /\ handlers' = [handlers EXCEPT ![r] = [pc |-> "repoFetch", q |-> q, filteredSummaries |-> refs]]
                /\ UNCHANGED lastResponse
           ELSE FilterAfterRepository(r, q, refs)
    /\ UNCHANGED <<aiVars, syncVars, ghVars, routeVars, parseVars, batchVars, pageVars, summariesStore, now>>

\* The fetch of the repository filter resolves.
RepositoryFetched(r, prs) ==
    /\ handlers[r].pc = "repoFetch"
    /\ LET h == handlers[r]
       IN  FilterAfterRepository(r, h.q, SelectSeq(h.filteredSummaries, LAMBDA ref : summariesStore[ref].prId \in repoPRIds(prs, h.q.repository)))
    /\ UNCHANGED <<aiVars, syncVars, ghVars, routeVars, parseVars, batchVars, pageVars, summariesStore, now>>

\* The fetch of the author filter resolves.
AuthorFetched(r, prs) ==
    /\ handlers[r].pc = "authorFetch"
    /\ LET h == handlers[r]
       IN  FilterRespond(r, h.q, SelectSeq(h.filteredSummaries, LAMBDA ref : summariesStore[ref].prId \in authorPRIds(prs, h.q.author)))
    /\ UNCHANGED <<aiVars, syncVars, ghVars, routeVars, parseVars, batchVars, pageVars, summariesStore, now>>

\* A fetch of a filter rejects: the handler's catch answers 500.
FilterFetchFailed(r) ==
    /\ handlers[r].pc \in {"repoFetch", "authorFetch"}
    /\ handlers' = [handlers EXCEPT ![r] = Idle]
    /\ lastResponse' = ErrorResponse(r, "query")
    /\ UNCHANGED <<aiVars, syncVars, ghVars, routeVars, parseVars, batchVars, pageVars, summariesStore, now>>

QueryInit ==
    /\ llmPrimary = [provider |-> "openai", apiKey |-> TRUE]
    /\ openai = OpenAIInitialized(llmPrimary)
    /\ claude = ClaudeInitialized(llmPrimary)
    /\ defaultConfig = DefaultConfigOf(llmPrimary)
    /\ summariesStore \in QueryStores
    /\ handlers = [r \in Reqs |-> Idle]
    /\ lastResponse = <<>>
    /\ now = 0
    /\ SyncIdle
    /\ GitHubIdle
    /\ RouteIdle
    /\ BatchIdle
    /\ PageIdle
    /\ ParseIdle

\* One query at a time: queries only read the store, so they do not affect
\* each other; the writers that run between a query's awaits are the toggles.
QueryReqs == {"r1"}

QueryNext ==
    \/ \E r \in QueryReqs, q \in QueryParams : FilterStart(r, q)
    \/ \E r \in QueryReqs, prs \in FilterFetchResults : RepositoryFetched(r, prs)
    \/ \E r \in QueryReqs, prs \in FilterFetchResults : AuthorFetched(r, prs)
    \/ \E r \in QueryReqs : FilterFetchFailed(r)
    \/ \E id \in ToggleIds : ToggleReviewed(id)
    \/ \E id \in ToggleIds : ToggleImportant(id)

QuerySpec == QueryInit /\ [][QueryNext]_vars

(***************************************************************************)
(* Claims settled under QuerySpec.                                         *)
(***************************************************************************)
\* The contract's filter: every supplied parameter must match (the prId
\* parameter is the decimal numeral of the pull request's id).
MatchesAll(s, q) ==
    /\ q.prId # Absent => s.prId = ParseInt(q.prId)
    /\ q.repository # Absent => PullRequest(s.prId).repository = q.repository
    /\ q.author # Absent => PullRequest(s.prId).author = q.author
    /\ q.impact # Absent => s.impact = q.impact
    /\ q.reviewed # Absent => s.isReviewed = (q.reviewed = "true")
    /\ q.important # Absent => s.isImportant = (q.important = "true")

ExactlyTheMatches(items, store, q) ==
    /\ {items[k] : k \in 1..Len(items)} = {store[k] : k \in {j \in 1..Len(store) : MatchesAll(store[j], q)}}
    /\ Len(items) = Cardinality({j \in 1..Len(store) : MatchesAll(store[j], q)})
    /\ \A k \in 1..(Len(items) - 1) : items[k].createdAt >= items[k + 1].createdAt

\* C11 (as claimed): a successful query answers with exactly the stored
\* summaries that satisfy every supplied filter (prId, repository, author,
\* impact, reviewed, important), newest first.
C11_QueryFilters ==
    [][\A r \in Reqs :
        /\ \A q \in QueryParams : (FilterStart(r, q) /\ handlers'[r].pc = "idle") =>
              ExactlyTheMatches(lastResponse'.data.items, summariesStore, q)
        /\ \A prs \in FilterFetchResults : ((RepositoryFetched(r, prs) \/ AuthorFetched(r, prs)) /\ handlers'[r].pc = "idle" /\ lastResponse'.status = 200) =>
              ExactlyTheMatches(lastResponse'.data.items, summariesStore, handlers[r].q)
    ]_vars


(***************************************************************************)
(* Claims settled under StoreSpec.                                         *)
(***************************************************************************)

\* C1 (as claimed): the store never holds two summaries of one pull request.
C1_AtMostOnePerPR == \A p \in PrIdsOf(summariesStore) : CountFor(summariesStore, p) <= 1

\* C5: a generate request without force selects no pull request that has a
\* stored summary, and when every fetched pull request has one it generates
\* nothing and leaves the store as it is; a forced request generates one
\* summary per selected pull request and leaves exactly one in the store.
C5_DedupAndReplace ==
    [][\A r \in Reqs :
        /\ \A prs \in FetchResults : (GenerateFetched(r, prs) /\ ~handlers[r].force) =>
              /\ handlers'[r].pc = "genBatch" => \A k \in 1..Len(handlers'[r].prs) : handlers'[r].prs[k].id \notin PrIdsOf(summariesStore)
              /\ (\A k \in 1..Len(prs) : prs[k].id \in PrIdsOf(summariesStore)) =>
                    /\ handlers'[r].pc = "idle"
                    /\ lastResponse'.data.generated = 0
                    /\ summariesStore' = summariesStore
        /\ (GenerateDone(r) /\ handlers[r].force) =>
              /\ lastResponse'.data.generated = Len(handlers[r].prs)
              /\ \A k \in 1..Len(handlers[r].prs) : CountFor(summariesStore', handlers[r].prs[k].id) = 1
    ]_vars

\* C5 witness: a forced request has generated the replacement of a summary
\* the store holds.
C5_Witness ==
    \E r \in Reqs :
        /\ handlers[r].pc = "genBatch"
        /\ handlers[r].force
        /\ AllSettled(handlers[r].promises)
        /\ \A k \in 1..Len(handlers[r].prs) : handlers[r].prs[k].id \in PrIdsOf(summariesStore)

\* The pull requests a generate handler goes on to summarise.
ChosenBy(h) == IF h.pc = "genBatch" THEN h.prs ELSE <<>>

\* C27: a generate request summarises at most maxPRs pull requests: without
\* force the first maxPRs fetched pull requests that have no stored summary,
\* with force the first maxPRs fetched pull requests.
C27_FilterBeforeTruncate ==
    [][\A r \in Reqs, prs \in FetchResults :
        GenerateFetched(r, prs) =>
            LET h        == handlers[r]
                eligible == IF h.force THEN prs ELSE SelectSeq(prs, LAMBDA pr : pr.id \notin PrIdsOf(summariesStore))
            IN  /\ Len(ChosenBy(handlers'[r])) <= h.maxPRs
                /\ ChosenBy(handlers'[r]) = SubSeq(eligible, 1, Min(h.maxPRs, Len(eligible)))
    ]_vars

\* C27 witness: a request without force and with maxPRs = 1 fetched two
\* pull requests, the first of which has a stored summary, and chose the
\* second.
C27_Witness ==
    \E r \in Reqs :
        /\ handlers[r].pc = "genBatch"
        /\ ~handlers[r].force
        /\ handlers[r].maxPRs = 1
        /\ handlers[r].fetched = 2
        /\ handlers[r].prs = <<PullRequest(2)>>
        /\ 1 \in PrIdsOf(summariesStore)

\* C30 (as claimed): no step of a GET / handler or of GET /:id changes the
\* store, whatever the store holds, the empty store included.
C30_ReadsLeaveStoreUnchanged ==
    [][((\E r \in Reqs : (\E q \in Queries : QueryStart(r, q)) \/ (\E prs \in FetchResults : InitFetched(r, prs)) \/ InitFetchFailed(r) \/ InitDone(r))
        \/ (\E id \in RequestIds : GetSummary(id)))
       => summariesStore' = summariesStore
    ]_vars

\* The current summary of a pull request: the first the store holds for it.
CurrentFor(store, p) == store[CHOOSE k \in 1..Len(store) : store[k].prId = p /\ \A j \in 1..(k - 1) : store[j].prId # p]

\* C6 (as claimed): the flags of a pull request's current summary change
\* only in a step of a toggle operation on it.
C6_FlagsOnlyByToggle ==
    [][\A p \in {1, 2} :
        (p \in PrIdsOf(summariesStore) /\ p \in PrIdsOf(summariesStore')) =>
            \/ /\ CurrentFor(summariesStore', p).isReviewed = CurrentFor(summariesStore, p).isReviewed
               /\ CurrentFor(summariesStore', p).isImportant = CurrentFor(summariesStore, p).isImportant
            \/ ToggleReviewed(SummaryId(p))
            \/ ToggleImportant(SummaryId(p))
    ]_vars

\* `after` is `before` with the given flag of the first summary of that id
\* flipped, and nothing else changed.
OnlyFlagFlipped(before, after, id, flag) ==
    /\ Len(after) = Len(before)
    /\ \E k \in 1..Len(before) :
          /\ before[k].id = id
          /\ \A j \in 1..(k - 1) : before[j].id # id
          /\ after[k] = [before[k] EXCEPT ![flag] = ~before[k][flag]]
          /\ after[k].createdAt = before[k].createdAt
          /\ \A j \in (1..Len(before)) \ {k} : after[j] = before[j]

\* C8: a toggle of a stored summary flips that flag of that summary and
\* changes nothing else, and a second toggle restores the store.
C8_ToggleRoundTrip ==
    [][\A id \in ToggleIds : HasId(summariesStore, id) =>
        /\ ToggleReviewed(id) =>
              /\ OnlyFlagFlipped(summariesStore, summariesStore', id, "isReviewed")
              /\ toggleReviewed(summariesStore', id) = summariesStore
        /\ ToggleImportant(id) =>
              /\ OnlyFlagFlipped(summariesStore, summariesStore', id, "isImportant")
              /\ toggleImportant(summariesStore', id) = summariesStore
    ]_vars

\* C8 witness: a toggle has marked a summary reviewed in a store of several.
C8_Witness ==
    /\ lastResponse # <<>>
    /\ lastResponse.op = "toggleReviewed"
    /\ lastResponse.status = 200
    /\ lastResponse.data.isReviewed
    /\ Len(summariesStore) >= 2
    /\ \E k \in 1..Len(summariesStore) : summariesStore[k].isReviewed

\* C9: get and the toggles answer 404 for an id without a stored summary and
\* leave the store as it is.
C9_NotFound ==
    [][\A id \in RequestIds : ~HasId(summariesStore, id) =>
        ((GetSummary(id) \/ ToggleReviewed(id) \/ ToggleImportant(id)) =>
            /\ lastResponse'.status = 404
            /\ summariesStore' = summariesStore)
    ]_vars

\* C9 witness: a toggle was answered 404 while the store holds summaries.
C9_Witness ==
    /\ lastResponse # <<>>
    /\ lastResponse.op \in {"toggleReviewed", "toggleImportant"}
    /\ lastResponse.status = 404
    /\ Len(summariesStore) > 0

\* C22: no step takes the last summary of a pull request out of the store:
\* a forced regeneration keeps the old summary while the replacement is
\* being generated, whatever requests are served meanwhile, and evicts it in
\* the step that inserts the replacement.
C22_NoWindowWithoutSummary ==
    [][\A p \in {1, 2} : p \in PrIdsOf(summariesStore) => p \in PrIdsOf(summariesStore')]_vars

\* C22 witness: a forced regeneration of a stored pull request is waiting for
\* its provider call, and the store holds the old summary.
C22_Witness ==
    \E r \in Reqs :
        /\ handlers[r].pc = "genBatch"
        /\ handlers[r].force
        /\ \E k \in 1..Len(handlers[r].prs) :
              /\ handlers[r].promises[k].state = "calling"
              /\ handlers[r].prs[k].id \in PrIdsOf(summariesStore)

(***************************************************************************)
(* Claims settled under PageSpec.                                          *)
(***************************************************************************)
Max(a, b) == IF a > b THEN a ELSE b

\* C10: the page holds the items at offsets (page-1)*pageSize up to
\* page*pageSize-1 of the list, total is the length of the list and hasNext
\* holds exactly when page*pageSize < total.
C10_Pagination ==
    qResult # <<>> =>
        LET res    == qResult[1]
            offset == (qPage - 1) * qLimit
            count  == Max(0, Min(qLimit, Len(qList) - offset))
        IN  /\ res.total = Len(qList)
            /\ Len(res.items) = count
            /\ \A k \in 1..count : res.items[k] = qList[offset + k]
            /\ res.hasNext <=> (qPage * qLimit < res.total)

\* C10 witness: 23 summaries, page 2 of size 10: 10 items, total 23, hasNext.
C10_Witness ==
    /\ qResult # <<>>
    /\ Len(qList) = 23
    /\ qPage = 2
    /\ qLimit = 10
    /\ Len(qResult[1].items) = 10
    /\ qResult[1].total = 23
    /\ qResult[1].hasNext

====
